---- MODULE Spec2Model ----
(***************************************************************************)
(* A model of fitness_tracker.py: the session's workout and goal stores,   *)
(* the page handlers of main(), and the analytics helpers they call        *)
(* (calculate_metrics, get_fitness_level, generate_exercise_tips, the two  *)
(* chart builders and create_pdf_report).                                  *)
(*                                                                         *)
(* A date string "YYYY-MM-DD" is the triple <<year, month, day>>; a        *)
(* calendar day is its day-of-year ordinal in 2026; a timestamp is a       *)
(* number of seconds since the start of that year.  An average shown with  *)
(* one decimal place is held in tenths.                                    *)
(***************************************************************************)
EXTENDS Integers, Sequences, FiniteSets, TLC

VARIABLES
    workouts,   \* st.session_state.workouts
    goals,      \* st.session_state.goals
    now,        \* what datetime.now() returns: [day |-> ordinal, secs |-> time of day]
    action,     \* the handler or function that ran last
    out         \* what it returned or showed

vars == <<workouts, goals, now, action, out>>

(***************************************************************************)
(* Bounds of the model.                                                    *)
(***************************************************************************)
MaxWorkouts == 3     \* records logged through the form
MaxGoals == 1        \* goals added
MaxBulk == 35        \* length of the run of equal records in a level input
MaxTail == 2         \* further records after that run
MaxLen == 3          \* length of a tips input
MaxStore == 3        \* records appended by direct save_workout calls

(***************************************************************************)
(* Dates and times.                                                        *)
(***************************************************************************)
CumDays == <<0, 31, 59, 90, 120, 151, 181, 212, 243, 273, 304, 334>>

\* date.strftime("%Y-%m-%d"): the zero-padded year, month and day fields.
strftime(day) ==
    LET m == CHOOSE k \in 1..12 :
                 /\ CumDays[k] < day
                 /\ (k = 12 \/ day <= CumDays[k + 1])
    IN  <<2026, m, day - CumDays[m]>>

\* pd.to_datetime on a "YYYY-MM-DD" string: midnight of that day.
to_datetime(s) == (CumDays[s[2]] + s[3]) * 86400

\* datetime.now() as a timestamp.
Timestamp(t) == t.day * 86400 + t.secs

\* datetime - timedelta(days = n).
MinusDays(t, n) == [day |-> t.day - n, secs |-> t.secs]

\* a >= b on two "YYYY-MM-DD" strings: character order, which on fixed-width
\* zero-padded fields is the order of the fields left to right.
StrGE(a, b) ==
    \/ a[1] > b[1]
    \/ a[1] = b[1] /\ a[2] > b[2]
    \/ a[1] = b[1] /\ a[2] = b[2] /\ a[3] >= b[3]

(***************************************************************************)
(* Column helpers (pandas on the list of record dicts).                    *)
(***************************************************************************)
RECURSIVE SumField(_, _)
SumField(ws, f) ==
    IF ws = <<>> THEN 0 ELSE ws[1][f] + SumField(Tail(ws), f)

HasKey(w, k) == k \in DOMAIN w

\* df['type'].unique(): the distinct values of the column.
UniqueTypes(ws) == {ws[i].type : i \in 1..Len(ws)}

\* round(mean, 1) in tenths; an exact tie follows the float representation.
RoundTenths(sum, n, up) ==
    LET q == (10 * sum) \div n
        r == (10 * sum) % n
    IN  IF 2 * r > n THEN q + 1
        ELSE IF 2 * r < n THEN q
        ELSE IF up THEN q + 1 ELSE q

(***************************************************************************)
(* calculate_metrics                                                       *)
(***************************************************************************)
\* The lower bound of the week as calculate_metrics writes it: a date string.
WeekStartStr(t) == strftime(MinusDays(t, 7).day)

calculate_metrics(ws, t, up) ==
    IF ws = <<>>
    THEN [total_workouts |-> 0, total_duration |-> 0, total_calories |-> 0,
          avg_duration |-> 0, weekly_workouts |-> 0]
    ELSE LET weekly_df == {i \in 1..Len(ws) : StrGE(ws[i].date, WeekStartStr(t))}
         IN  [total_workouts |-> Len(ws),
              total_duration |-> SumField(ws, "duration"),
              total_calories |-> SumField(ws, "calories"),
              avg_duration |-> RoundTenths(SumField(ws, "duration"), Len(ws), up),
              weekly_workouts |-> Cardinality(weekly_df)]

(***************************************************************************)
(* get_fitness_level: the thresholds are compared with the exact mean      *)
(* sum / n, so mean < k is sum < k * n.                                    *)
(***************************************************************************)
\* The tier rule of the specification on a workout count and an average
\* held in tenths.
TierRule(total_workouts, avg10) ==
    IF total_workouts < 10 \/ avg10 < 200 THEN "Beginner"
    ELSE IF total_workouts < 30 \/ avg10 < 450 THEN "Intermediate"
    ELSE "Advanced"

\* Variant: the count thresholds taken inclusively.
get_fitness_level_le(ws) ==
    IF ws = <<>> THEN "Beginner"
    ELSE LET total_workouts == Len(ws)
             sum == SumField(ws, "duration")
         IN  IF total_workouts <= 10 \/ sum < 20 * total_workouts
             THEN "Beginner"
             ELSE IF total_workouts <= 30 \/ sum < 45 * total_workouts
             THEN "Intermediate"
             ELSE "Advanced"

\* Variant: the thresholds compared with the rounded average of the metrics.
get_fitness_level_rounded(ws) ==
    IF ws = <<>> THEN "Beginner"
    ELSE TierRule(Len(ws), RoundTenths(SumField(ws, "duration"), Len(ws), TRUE))

get_fitness_level(ws) ==
    IF ws = <<>> THEN "Beginner"
    ELSE LET total_workouts == Len(ws)
             sum == SumField(ws, "duration")
         IN  IF total_workouts < 10 \/ sum < 20 * total_workouts
             THEN "Beginner"
             ELSE IF total_workouts < 30 \/ sum < 45 * total_workouts
             THEN "Intermediate"
             ELSE "Advanced"

(***************************************************************************)
(* generate_exercise_tips                                                  *)
(***************************************************************************)
OnboardingTip == "Start your fitness journey by logging your first workout!"
WeeklyTip == "Try to exercise at least 3 times per week for better results"
DurationTip == "Aim for at least 30 minutes per workout session"
VarietyTip == "Mix up your routine with different types of exercises"
CaloriesTip == "Consider increasing workout intensity to burn more calories"

\* The weekly count of generate_exercise_tips: the dates are parsed to
\* timestamps and compared with the timestamp now - 7 days.
TipsWeeklyWorkouts(ws, t) ==
    Cardinality({i \in 1..Len(ws) :
        to_datetime(ws[i].date) >= Timestamp(MinusDays(t, 7))})

\* Variant: the variety check made before the duration check.
generate_exercise_tips_reordered(ws, t) ==
    IF ws = <<>> THEN <<OnboardingTip>>
    ELSE LET n == Len(ws)
             tips1 == IF TipsWeeklyWorkouts(ws, t) < 3 THEN <<WeeklyTip>> ELSE <<>>
             tips2 == IF Cardinality(UniqueTypes(ws)) < 3
                      THEN Append(tips1, VarietyTip) ELSE tips1
             tips3 == IF SumField(ws, "duration") < 30 * n
                      THEN Append(tips2, DurationTip) ELSE tips2
             tips4 == IF SumField(ws, "calories") < 200 * n
                      THEN Append(tips3, CaloriesTip) ELSE tips3
         IN  tips4

generate_exercise_tips(ws, t) ==
    IF ws = <<>> THEN <<OnboardingTip>>
    ELSE LET n == Len(ws)
             tips1 == IF TipsWeeklyWorkouts(ws, t) < 3 THEN <<WeeklyTip>> ELSE <<>>
             tips2 == IF SumField(ws, "duration") < 30 * n
                      THEN Append(tips1, DurationTip) ELSE tips1
             tips3 == IF Cardinality(UniqueTypes(ws)) < 3
                      THEN Append(tips2, VarietyTip) ELSE tips2
             tips4 == IF SumField(ws, "calories") < 200 * n
                      THEN Append(tips3, CaloriesTip) ELSE tips3
         IN  tips4

(***************************************************************************)
(* What a call gives back: a value, or the exception it raised.            *)
(***************************************************************************)
Returned(v) == [raised |-> "none", value |-> v]
Raised(e) == [raised |-> e, value |-> <<>>]

(***************************************************************************)
(* save_workout                                                            *)
(***************************************************************************)
\* Variant: the new record put first.
save_workout_front(ws, workout_data) == <<workout_data>> \o ws

save_workout(ws, workout_data) == Append(ws, workout_data)

(***************************************************************************)
(* The chart builders.  pd.DataFrame([]) has no columns, so px.line finds  *)
(* no column 'date' (ValueError) and df['type'] finds no column 'type'     *)
(* (KeyError); a column is there as soon as one record has the key.        *)
(***************************************************************************)
create_progress_chart(data, metric) ==
    IF \A i \in 1..Len(data) : ~(HasKey(data[i], "date") /\ HasKey(data[i], metric))
    THEN Raised("ValueError")
    ELSE Returned([x_title |-> "Date", y_title |-> metric,
                   points |-> [i \in 1..Len(data) |-> <<data[i].date, data[i][metric]>>]])

\* df['type'].value_counts(): type -> number of rows, rows without a type dropped.
create_workout_distribution(data) ==
    IF \A i \in 1..Len(data) : ~HasKey(data[i], "type")
    THEN Raised("KeyError")
    ELSE LET typed == {i \in 1..Len(data) : HasKey(data[i], "type")}
             names == {data[i].type : i \in typed}
         IN  Returned([n \in names |-> Cardinality({i \in typed : data[i].type = n})])

(***************************************************************************)
(* create_pdf_report.  The FPDF library is outside the program: `fault`    *)
(* says where it raises, if it does (stage "setup": while the page, title  *)
(* and summary are written; stage "output": in pdf.output(...).encode;     *)
(* row k > 0: in a pdf.cell call of row k, after the date cell).           *)
(***************************************************************************)
NoFault == [stage |-> "none", row |-> 0]

\* workout['type'][:20]
Truncate20(s) == IF Len(s) > 20 THEN SubSeq(s, 1, 20) ELSE s

\* The rows the loop of lines 163-177 has drawn after records 1..k, or the
\* exception that left the loop: the four fields are read before the inner
\* try, the four cells are drawn inside it.
RECURSIVE RenderRows(_, _, _)
RenderRows(ws, k, fault) ==
    IF k = 0 THEN Returned(<<>>)
    ELSE LET before == RenderRows(ws, k - 1, fault)
             w == ws[k]
         IN  IF before.raised # "none" THEN before
             ELSE IF ~HasKey(w, "type") THEN Raised("KeyError")
             ELSE IF fault.row = k
                  THEN Returned(Append(before.value, <<w.date>>))
                  ELSE Returned(Append(before.value,
                           <<w.date, Truncate20(w.type), w.duration, w.calories>>))

\* The body of the outer try: the document, or the exception that left it.
PdfBody(ws, t, fault) ==
    IF fault.stage = "setup" THEN Raised("Exception")
    ELSE LET metrics == calculate_metrics(ws, t, TRUE)   \* avg_duration is not read
             rows == RenderRows(ws, Len(ws), fault)
         IN  IF rows.raised # "none" THEN rows
             ELSE IF fault.stage = "output" THEN Raised("Exception")
             ELSE Returned([title |-> "Fitness Tracker Report",
                            summary |-> <<metrics.total_workouts,
                                          metrics.total_duration,
                                          metrics.total_calories>>,
                            header |-> <<"Date", "Type", "Duration", "Calories">>,
                            rows |-> rows.value])

\* Variant: no outer handler result; what was built is returned as it is.
create_pdf_report_unguarded(ws, t, fault) ==
    [none |-> FALSE, doc |-> PdfBody(ws, t, fault).value, error |-> ""]

\* The bytes of the document, or None with st.error shown (lines 180-182).
create_pdf_report(ws, t, fault) ==
    LET body == PdfBody(ws, t, fault)
    IN  IF body.raised = "none"
        THEN [none |-> FALSE, doc |-> body.value, error |-> ""]
        ELSE [none |-> TRUE, doc |-> <<>>, error |-> "Error creating PDF"]

(***************************************************************************)
(* The export encodings of pandas: df.to_csv(index=False), df.to_string(). *)
(***************************************************************************)
Columns == <<"date", "type", "duration", "calories", "distance", "heart_rate", "notes">>

\* One record's values in column order; a missing key is an empty cell.
RowOf(w) == [c \in 1..Len(Columns) |->
                IF HasKey(w, Columns[c]) THEN w[Columns[c]] ELSE ""]

to_csv(ws) ==
    IF ws = <<>> THEN <<>>
    ELSE <<Columns>> \o [i \in 1..Len(ws) |-> RowOf(ws[i])]

to_string(ws) ==
    IF ws = <<>> THEN <<"Empty DataFrame">>
    ELSE <<Columns>> \o [i \in 1..Len(ws) |-> <<i - 1>> \o RowOf(ws[i])]

(***************************************************************************)
(* The inputs of the form widgets of main().                               *)
(***************************************************************************)
Today == CumDays[11] + 3    \* 2026-11-03

Nows == {[day |-> Today, secs |-> 0], [day |-> Today, secs |-> 43200]}

WorkoutTypes ==
    {"Running", "Cycling", "Strength Training", "Yoga", "Swimming", "HIIT", "Other"}

GoalTypes ==
    {"Weekly Workouts", "Duration per Session", "Calories per Week", "Distance Goal"}

ExportFormats == {"PDF", "CSV", "TXT"}

\* What the user may try to enter, before the widgets' min_value applies.
FormDays == {Today - 7, Today}
FormTypes == {"Running", "Yoga"}
FormDurations == {0, 30}
FormCalories == {100}
FormGoalTypes == {"Weekly Workouts"}
FormTargets == {0, 5}

\* At most one library failure in a call.
Faults(ws) ==
    {[stage |-> st, row |-> 0] : st \in {"none", "setup", "output"}}
        \cup {[stage |-> "none", row |-> k] : k \in 1..Len(ws)}

NoDownload == [label |-> "", data |-> <<>>, file_name |-> "", mime |-> ""]

(***************************************************************************)
(* The handlers of main(), one per button or page.  random.choice only     *)
(* picks which of the fixed strings is shown and is left out of `out`.     *)
(***************************************************************************)
Init ==
    /\ workouts = <<>>
    /\ goals = <<>>
    /\ now \in Nows
    /\ action = "start"
    /\ out = <<>>

\* Page "Log Workout", button "Save Workout" (lines 302-341).
SaveWorkout(day, workout_type, duration, calories) ==
    /\ Len(workouts) < MaxWorkouts
    /\ workout_type \in WorkoutTypes
    /\ duration >= 1               \* st.number_input(min_value=1)
    /\ calories >= 0               \* st.number_input(min_value=0)
    /\ LET workout == [date |-> strftime(day), type |-> workout_type,
                       duration |-> duration, calories |-> calories,
                       distance |-> 0, heart_rate |-> 0, notes |-> ""]
       IN  /\ workouts' = save_workout(workouts, workout)
           /\ out' = [success |-> "Workout logged successfully!",
                      fitness_level |-> get_fitness_level(workouts')]
    /\ action' = "SaveWorkout"
    /\ UNCHANGED <<goals, now>>

\* Page "View Progress" (lines 346-398).
ViewProgress(up) ==
    /\ action' = "ViewProgress"
    /\ IF workouts = <<>>
       THEN out' = [info |-> "No workouts logged yet"]
       ELSE out' = [metrics |-> calculate_metrics(workouts, now, up),
                    progress |-> create_progress_chart(workouts, "duration"),
                    distribution |-> create_workout_distribution(workouts),
                    tips |-> generate_exercise_tips(workouts, now),
                    recent |-> [i \in 1..Len(workouts) |->
                                   workouts[Len(workouts) + 1 - i]],
                    fitness_level |-> get_fitness_level(workouts)]
    /\ UNCHANGED <<workouts, goals, now>>

\* Page "Set Goals", button "Add Goal" (lines 400-436).
AddGoal(goal_type, target_value) ==
    /\ Len(goals) < MaxGoals
    /\ goal_type \in GoalTypes
    /\ target_value >= 1           \* st.number_input(min_value=1)
    /\ goals' = Append(goals, [type |-> goal_type, target |-> target_value,
                               current |-> 0,
                               date_added |-> strftime(now.day)])
    /\ out' = [success |-> "Goal added successfully!", shown |-> goals']
    /\ action' = "AddGoal"
    /\ UNCHANGED <<workouts, now>>

\* The file name and content type given to st.download_button.
ExportExt(export_format) ==
    IF export_format = "PDF" THEN "pdf"
    ELSE IF export_format = "CSV" THEN "csv" ELSE "txt"

\* Variant: one base name for the three formats.
ExportFileName_report(export_format) ==
    "fitness_tracker_report." \o ExportExt(export_format)

ExportFileName(export_format) ==
    IF export_format = "PDF" THEN "fitness_tracker_report.pdf"
    ELSE IF export_format = "CSV" THEN "fitness_tracker_data.csv"
    ELSE "fitness_tracker_data.txt"

ExportMime(export_format) ==
    IF export_format = "PDF" THEN "application/pdf"
    ELSE IF export_format = "CSV" THEN "text/csv"
    ELSE "text/plain"

\* Page "Export Data", button "Export" (lines 438-474).
Export(export_format, fault) ==
    /\ export_format \in ExportFormats
    /\ action' = "Export"
    /\ IF export_format = "PDF"
       THEN LET pdf_data == create_pdf_report(workouts, now, fault)
            IN  out' = [format |-> export_format, fault |-> fault,
                        error |-> pdf_data.error,
                        download |->
                            IF ~pdf_data.none
                            THEN [label |-> "Download PDF", data |-> pdf_data.doc,
                                  file_name |-> ExportFileName(export_format),
                                  mime |-> ExportMime(export_format)]
                            ELSE NoDownload]
       ELSE IF export_format = "CSV"
       THEN out' = [format |-> export_format, fault |-> NoFault, error |-> "",
                    download |-> [label |-> "Download CSV", data |-> to_csv(workouts),
                                  file_name |-> ExportFileName(export_format),
                                  mime |-> ExportMime(export_format)]]
       ELSE out' = [format |-> export_format, fault |-> NoFault, error |-> "",
                    download |-> [label |-> "Download TXT",
                                  data |-> to_string(workouts),
                                  file_name |-> ExportFileName(export_format),
                                  mime |-> ExportMime(export_format)]]
    /\ UNCHANGED <<workouts, goals, now>>

Next ==
    \/ \E day \in FormDays, ty \in FormTypes, d \in FormDurations, c \in FormCalories :
           SaveWorkout(day, ty, d, c)
    \/ \E up \in BOOLEAN : ViewProgress(up)
    \/ \E gt \in FormGoalTypes, tv \in FormTargets : AddGoal(gt, tv)
    \/ \E f \in ExportFormats, fault \in Faults(workouts) : Export(f, fault)

Spec == Init /\ [][Next]_vars

(***************************************************************************)
(* The helpers called directly, as a test or another page would call       *)
(* them, on inputs drawn from bounded sets.                                *)
(***************************************************************************)
SeqsUpTo(S, n) == UNION {[1..k -> S] : k \in 0..n}

Bulk(n, w) == [i \in 1..n |-> w]

Record(day, ty, d, c) ==
    [date |-> strftime(day), type |-> ty, duration |-> d, calories |-> c,
     distance |-> 0, heart_rate |-> 0, notes |-> ""]

Noon == [day |-> Today, secs |-> 43200]

CallGetFitnessLevel ==
    /\ action' = "get_fitness_level"
    /\ out' = Returned(get_fitness_level(workouts))
    /\ UNCHANGED <<workouts, goals, now>>

CallCalculateMetrics(up) ==
    /\ action' = "calculate_metrics"
    /\ out' = Returned(calculate_metrics(workouts, now, up))
    /\ UNCHANGED <<workouts, goals, now>>

CallGenerateExerciseTips ==
    /\ action' = "generate_exercise_tips"
    /\ out' = Returned(generate_exercise_tips(workouts, now))
    /\ UNCHANGED <<workouts, goals, now>>

CallSaveWorkout(workout_data) ==
    /\ Len(workouts) < MaxStore
    /\ action' = "save_workout"
    /\ workouts' = save_workout(workouts, workout_data)
    /\ out' = [arg |-> workout_data]
    /\ UNCHANGED <<goals, now>>

CallCreateProgressChart ==
    /\ action' = "create_progress_chart"
    /\ out' = create_progress_chart(workouts, "duration")
    /\ UNCHANGED <<workouts, goals, now>>

CallCreateWorkoutDistribution ==
    /\ action' = "create_workout_distribution"
    /\ out' = create_workout_distribution(workouts)
    /\ UNCHANGED <<workouts, goals, now>>

CallCreatePdfReport(fault) ==
    /\ action' = "create_pdf_report"
    /\ out' = [fault |-> fault, ret |-> create_pdf_report(workouts, now, fault)]
    /\ UNCHANGED <<workouts, goals, now>>

(***************************************************************************)
(* SpecLevel: get_fitness_level and calculate_metrics on a run of equal    *)
(* records followed by a few more, the durations around the thresholds.    *)
(***************************************************************************)
LevelDurations == {19, 20, 25, 44, 45, 50}

LevelRecord(d) == Record(Today, "Running", d, 200)

LevelInputs ==
    {Bulk(n, LevelRecord(d)) \o tail :
        n \in 0..MaxBulk, d \in LevelDurations,
        tail \in SeqsUpTo({LevelRecord(e) : e \in LevelDurations}, MaxTail)}

InitLevel ==
    /\ workouts \in LevelInputs
    /\ goals = <<>>
    /\ now = Noon
    /\ action = "start"
    /\ out = <<>>

NextLevel ==
    \/ CallGetFitnessLevel
    \/ \E up \in BOOLEAN : CallCalculateMetrics(up)

SpecLevel == InitLevel /\ [][NextLevel]_vars

(***************************************************************************)
(* SpecTips: generate_exercise_tips and calculate_metrics on short         *)
(* sequences whose dates lie before, on and after the start of the week.   *)
(***************************************************************************)
TipsDays == {Today - 8, Today - 7, Today}

TipsProfiles ==
    {<<"Running", 30, 200>>, <<"Running", 20, 200>>, <<"Cycling", 30, 200>>,
     <<"Cycling", 30, 100>>, <<"Yoga", 30, 200>>}

TipsRecords == {Record(day, p[1], p[2], p[3]) : day \in TipsDays, p \in TipsProfiles}

InitTips ==
    /\ workouts \in SeqsUpTo(TipsRecords, MaxLen)
    /\ goals = <<>>
    /\ now \in Nows
    /\ action = "start"
    /\ out = <<>>

NextTips ==
    \/ CallGenerateExerciseTips
    \/ \E up \in BOOLEAN : CallCalculateMetrics(up)

SpecTips == InitTips /\ [][NextTips]_vars

(***************************************************************************)
(* SpecApi: the store filled by direct save_workout calls with any record, *)
(* then read by the chart builders, the report and the Export handler.     *)
(***************************************************************************)
ApiRecords ==
    {Record(Today, "Running", 30, 200),
     Record(Today - 1, "Strength And Conditioning", 45, 300),
     Record(Today, "Yoga", -5, 100),
     Record(Today, "Yoga", 0, 100),
     [date |-> strftime(Today), duration |-> 30, calories |-> 200,
      distance |-> 0, heart_rate |-> 0, notes |-> ""]}

InitApi ==
    /\ workouts = <<>>
    /\ goals = <<>>
    /\ now \in Nows
    /\ action = "start"
    /\ out = <<>>

NextApi ==
    \/ \E r \in ApiRecords : CallSaveWorkout(r)
    \/ \E up \in BOOLEAN : CallCalculateMetrics(up)
    \/ CallCreateProgressChart
    \/ CallCreateWorkoutDistribution
    \/ \E fault \in Faults(workouts) : CallCreatePdfReport(fault)
    \/ \E f \in ExportFormats, fault \in Faults(workouts) : Export(f, fault)

SpecApi == InitApi /\ [][NextApi]_vars

(***************************************************************************)
(* Properties.                                                             *)
(***************************************************************************)
Durations(ws) == SumField(ws, "duration")

\* C1: get_fitness_level returns the tier of the ordered first-match rule on
\* the number of records and their mean duration: Beginner for no records;
\* else Beginner if count < 10 or mean < 20; else Intermediate if count < 30
\* or mean < 45; else Advanced.
C1_FitnessLevelRule ==
    action = "get_fitness_level" =>
        LET n == Len(workouts)
            beginner == n = 0 \/ n < 10 \/ Durations(workouts) < 20 * n
            intermediate == ~beginner /\ (n < 30 \/ Durations(workouts) < 45 * n)
        IN  /\ beginner => out.value = "Beginner"
            /\ intermediate => out.value = "Intermediate"
            /\ ~beginner /\ ~intermediate => out.value = "Advanced"

\* 35 records of 50 minutes are classified Advanced.
C1_Witness ==
    /\ action = "get_fitness_level"
    /\ Len(workouts) = 35
    /\ \A i \in 1..Len(workouts) : workouts[i].duration = 50
    /\ out.value = "Advanced"

\* C10 as stated: the tier is the rule applied to total_workouts and the
\* rounded avg_duration that calculate_metrics returns (an exact tie taken
\* whichever way favours the statement).
C10_TierFromMetrics ==
    action = "get_fitness_level" =>
        \E up \in BOOLEAN :
            LET m == calculate_metrics(workouts, now, up)
            IN  out.value = TierRule(m.total_workouts, m.avg_duration)

\* C10 amended: the tier is the rule applied to total_workouts and the exact
\* mean.  It is the rule applied to the metrics unless the exact mean lies
\* below 20 (or 45) and its rounding reaches 20.0 (45.0); then it is the tier
\* of an average one tenth lower.
C10_TierFromExactMean ==
    action = "get_fitness_level" =>
        \A up \in BOOLEAN :
            LET m == calculate_metrics(workouts, now, up)
                n == Len(workouts)
                lifted == \/ Durations(workouts) < 20 * n /\ m.avg_duration >= 200
                          \/ Durations(workouts) < 45 * n /\ m.avg_duration >= 450
            IN  out.value = TierRule(m.total_workouts,
                                     IF lifted THEN m.avg_duration - 1
                                     ELSE m.avg_duration)

\* 30 records with mean 44.97, shown as 45.0, are classified Intermediate.
C10_Witness ==
    /\ action = "get_fitness_level"
    /\ Len(workouts) = 30
    /\ Durations(workouts) = 1349
    /\ calculate_metrics(workouts, now, TRUE).avg_duration = 450
    /\ out.value = "Intermediate"

\* The day ordinal a date string names.
DayOf(s) == CumDays[s[2]] + s[3]

\* The records of the last 7 x 24 hours: those whose date, at midnight, is
\* not before now - 7 days.  This is the count generate_exercise_tips makes.
RollingWeekCount(ws, t) ==
    Cardinality({i \in 1..Len(ws) :
        DayOf(ws[i].date) * 86400 >= (t.day - 7) * 86400 + t.secs})

\* The records whose calendar date d satisfies d >= today - 7 days.
CalendarWeekCount(ws, t) ==
    Cardinality({i \in 1..Len(ws) : DayOf(ws[i].date) >= t.day - 7})

\* C2: generate_exercise_tips returns the one onboarding message for no
\* records; otherwise one message per failing threshold and nothing else, in
\* the order weekly count < 3, mean duration < 30, distinct types < 3, mean
\* calories < 200; so the list is empty when the weekly count is >= 3, every
\* duration >= 30, the distinct types >= 3 and the mean calories >= 200.
\* The weekly count is the one the function makes (see C3).
C2_TipsPerFailingThreshold ==
    action = "generate_exercise_tips" =>
        LET n == Len(workouts)
            weekly == RollingWeekCount(workouts, now)
            types == Cardinality({workouts[i].type : i \in 1..n})
            calories == SumField(workouts, "calories")
            expected ==
                (IF weekly < 3 THEN <<WeeklyTip>> ELSE <<>>)
                \o (IF Durations(workouts) < 30 * n THEN <<DurationTip>> ELSE <<>>)
                \o (IF types < 3 THEN <<VarietyTip>> ELSE <<>>)
                \o (IF calories < 200 * n THEN <<CaloriesTip>> ELSE <<>>)
        IN  /\ n = 0 => out.value = <<OnboardingTip>>
            /\ n > 0 => out.value = expected
            /\ ( /\ n > 0
                 /\ weekly >= 3
                 /\ \A i \in 1..n : workouts[i].duration >= 30
                 /\ types >= 3
                 /\ calories >= 200 * n ) => out.value = <<>>

\* Three recent records of three types, 30 minutes and 200 kcal each: no tip.
C2_Witness ==
    /\ action = "generate_exercise_tips"
    /\ Len(workouts) = 3
    /\ RollingWeekCount(workouts, now) = 3
    /\ Cardinality({workouts[i].type : i \in 1..3}) = 3
    /\ \A i \in 1..3 : workouts[i].duration >= 30
    /\ out.value = <<>>

\* C3: for the same records and the same current time, the weekly count of
\* generate_exercise_tips equals calculate_metrics' weekly_workouts, and both
\* are the number of records dated on or after today - 7 days.
C3_WeeklyCountsAgree ==
    action \in {"generate_exercise_tips", "calculate_metrics"} =>
        /\ TipsWeeklyWorkouts(workouts, now)
               = calculate_metrics(workouts, now, TRUE).weekly_workouts
        /\ workouts # <<>> =>
               /\ TipsWeeklyWorkouts(workouts, now) = CalendarWeekCount(workouts, now)
               /\ calculate_metrics(workouts, now, TRUE).weekly_workouts
                      = CalendarWeekCount(workouts, now)

\* C4: the workout store only grows, by Save Workout appending one record at
\* its end; View Progress, Add Goal and Export leave it as it is, and the
\* records already stored keep their values and their order.
C4_AppendOnly ==
    [][ IF action' = "SaveWorkout"
        THEN /\ Len(workouts') = Len(workouts) + 1
             /\ SubSeq(workouts', 1, Len(workouts)) = workouts
        ELSE workouts' = workouts ]_vars

\* A record dated a week back saved after a record dated today.
C4_Witness ==
    /\ action = "SaveWorkout"
    /\ Len(workouts) >= 2
    /\ DayOf(workouts[Len(workouts)].date) < DayOf(workouts[1].date)

\* C5: the append validates, so every stored record has duration >= 1
\* whatever records save_workout was called with.
C5_AppendValidates ==
    \A i \in 1..Len(workouts) : workouts[i].duration >= 1

\* The rows of the records that have a type, in order.
RECURSIVE WellFormedRows(_)
WellFormedRows(ws) ==
    IF ws = <<>> THEN <<>>
    ELSE (IF HasKey(ws[1], "type")
          THEN <<<<ws[1].date, Truncate20(ws[1].type),
                   ws[1].duration, ws[1].calories>>>>
          ELSE <<>>) \o WellFormedRows(Tail(ws))

\* C6: with no failure of the library, create_pdf_report returns a document
\* for any records, malformed ones included, holding one row per well-formed
\* record in order.
C6_MalformedRowsSkipped ==
    (action = "create_pdf_report" /\ out.fault = NoFault) =>
        /\ ~out.ret.none
        /\ out.ret.doc.rows = WellFormedRows(workouts)

\* C7: when a step of create_pdf_report raises, it returns None with an
\* error message shown and Export offers no download; a PDF download is
\* offered only with the document of a run that reached its end.
C7_PdfFailsSafely ==
    /\ action = "create_pdf_report" =>
           LET body == PdfBody(workouts, now, out.fault)
           IN  IF body.raised # "none"
               THEN out.ret.none /\ out.ret.error # ""
               ELSE ~out.ret.none /\ out.ret.doc = body.value
    /\ (action = "Export" /\ out.format = "PDF") =>
           LET body == PdfBody(workouts, now, out.fault)
           IN  IF body.raised # "none"
               THEN out.download.label = "" /\ out.error # ""
               ELSE /\ out.download.label = "Download PDF"
                    /\ out.download.data = body.value
                    /\ out.error = ""

\* An Export of a store holding a record without a type: nothing to download.
C7_Witness ==
    /\ action = "Export"
    /\ out.format = "PDF"
    /\ \E i \in 1..Len(workouts) : ~HasKey(workouts[i], "type")
    /\ out.download.label = ""
    /\ out.error # ""

\* C8 as stated: every artifact is named fitness_tracker_report.<ext> and
\* carries the content type of its format.
C8_ReportFileNames ==
    (action = "Export" /\ out.download.label # "") =>
        /\ out.download.file_name = "fitness_tracker_report." \o ExportExt(out.format)
        /\ out.download.mime = ExportMime(out.format)

\* C8 amended: the content type is that of the format; the PDF is named
\* fitness_tracker_report.pdf, the CSV and TXT exports are named
\* fitness_tracker_data.csv and fitness_tracker_data.txt; CSV and TXT always
\* give an artifact.
C8_ExportArtifacts ==
    action = "Export" =>
        /\ out.format \in {"CSV", "TXT"} => out.download.label # ""
        /\ out.download.label # "" =>
               /\ out.format = "PDF" =>
                      /\ out.download.file_name = "fitness_tracker_report.pdf"
                      /\ out.download.mime = "application/pdf"
               /\ out.format = "CSV" =>
                      /\ out.download.file_name = "fitness_tracker_data.csv"
                      /\ out.download.mime = "text/csv"
               /\ out.format = "TXT" =>
                      /\ out.download.file_name = "fitness_tracker_data.txt"
                      /\ out.download.mime = "text/plain"

\* A CSV export of a non-empty store.
C8_Witness ==
    /\ action = "Export"
    /\ out.format = "CSV"
    /\ workouts # <<>>
    /\ out.download.file_name = "fitness_tracker_data.csv"

\* C9: on the empty sequence calculate_metrics returns all-zero metrics and
\* both chart builders return an empty series without raising.
C9_EmptyInputTolerated ==
    workouts = <<>> =>
        /\ action = "calculate_metrics" =>
               /\ out.raised = "none"
               /\ \A k \in DOMAIN out.value : out.value[k] = 0
        /\ action = "create_progress_chart" =>
               /\ out.raised = "none"
               /\ out.value.points = <<>>
        /\ action = "create_workout_distribution" =>
               /\ out.raised = "none"
               /\ DOMAIN out.value = {}

====
